---------------------------- MODULE Spec2Model ----------------------------
(***************************************************************************)
(* A model of the two BRAND demo pipelines:                                *)
(*   src/momentum_burst_demo.py  - parallel fetch of per-exchange data,    *)
(*                                 z-score momentum, most-extreme pick,    *)
(*                                 BUY / SELL / HOLD                       *)
(*   src/brand_demo.py           - parallel fetch of price segments,       *)
(*                                 trailing moving average, Buy/Sell/Hold  *)
(*                                                                         *)
(* Numbers.  TLC has 32-bit integers and no reals, so:                     *)
(*   - prices are integers, in cents (the code rounds every price to two   *)
(*     decimals); volumes are the code's integers;                         *)
(*   - a z-score and a momentum score are kept exactly, as a signed square *)
(*     root of a ratio of naturals ("surd"): s * sqrt(n / d), with n and d *)
(*     arbitrary-precision naturals (little-endian limbs, base 10^4);      *)
(*   - the two thresholds of brand_demo.py are products of binary64        *)
(*     literals and are computed bit-exactly (FloatOf, FloatMul).          *)
(***************************************************************************)
EXTENDS Integers, Sequences, FiniteSets, TLC

(***************************************************************************)
(* Arbitrary-precision naturals.                                           *)
(***************************************************************************)
Base == 10 ^ 4

Abs(x) == IF x < 0 THEN -x ELSE x

Sgn(x) == IF x > 0 THEN 1 ELSE IF x < 0 THEN -1 ELSE 0

RECURSIVE BigOf(_)
BigOf(k) == IF k = 0 THEN << >> ELSE <<k % Base>> \o BigOf(k \div Base)

RECURSIVE BigTrim(_)
BigTrim(a) ==
  IF a = << >> THEN a
  ELSE IF a[Len(a)] = 0 THEN BigTrim(SubSeq(a, 1, Len(a) - 1)) ELSE a

Limb(a, i) == IF i <= Len(a) THEN a[i] ELSE 0

RECURSIVE BigAddFrom(_, _, _, _)
BigAddFrom(a, b, i, carry) ==
  IF i > Len(a) /\ i > Len(b)
  THEN (IF carry = 0 THEN << >> ELSE <<carry>>)
  ELSE LET t == Limb(a, i) + Limb(b, i) + carry
       IN  <<t % Base>> \o BigAddFrom(a, b, i + 1, t \div Base)

BigAdd(a, b) == BigAddFrom(a, b, 1, 0)

\* a * k for a small natural k (k * Base stays below 2^31)
RECURSIVE BigMulSmallFrom(_, _, _, _)
BigMulSmallFrom(a, k, i, carry) ==
  IF i > Len(a) THEN BigOf(carry)
  ELSE LET t == a[i] * k + carry
       IN  <<t % Base>> \o BigMulSmallFrom(a, k, i + 1, t \div Base)

BigMulSmall(a, k) == IF k = 0 THEN << >> ELSE BigMulSmallFrom(a, k, 1, 0)

RECURSIVE BigMul(_, _)
BigMul(a, b) ==
  IF b = << >> \/ a = << >> THEN << >>
  ELSE BigAdd(BigMulSmall(a, b[1]), <<0>> \o BigMul(a, Tail(b)))
       \* the shifted term may be <<0>> only if the product is 0, excluded above

\* -1, 0, 1 as a < b, a = b, a > b (both trimmed)
RECURSIVE BigCmpAt(_, _, _)
BigCmpAt(a, b, i) ==
  IF i = 0 THEN 0
  ELSE IF a[i] # b[i] THEN (IF a[i] < b[i] THEN -1 ELSE 1)
  ELSE BigCmpAt(a, b, i - 1)

BigCmp(a, b) ==
  IF Len(a) # Len(b) THEN (IF Len(a) < Len(b) THEN -1 ELSE 1)
  ELSE BigCmpAt(a, b, Len(a))

\* <<quotient, remainder>> of a by a small natural k >= 1
RECURSIVE BigDivSmallAt(_, _, _, _)
BigDivSmallAt(a, k, i, rem) ==
  IF i = 0 THEN << << >>, rem >>
  ELSE LET t    == rem * Base + a[i]
           rest == BigDivSmallAt(a, k, i - 1, t % k)
       IN  << rest[1] \o <<t \div k>>, rest[2] >>

BigDivSmall(a, k) ==
  LET r == BigDivSmallAt(a, k, Len(a), 0) IN <<BigTrim(r[1]), r[2]>>

BigOdd(a) == a # << >> /\ a[1] % 2 = 1

\* 2^e, thirteen bits (2^13 < Base) at a time
RECURSIVE BigPow2(_)
BigPow2(e) == IF e < 13 THEN <<2 ^ e>> ELSE BigMulSmall(BigPow2(e - 13), 2 ^ 13)

(***************************************************************************)
(* IEEE-754 binary64, as far as brand_demo.py needs it: a positive normal  *)
(* float is [m, e] with 2^52 <= m < 2^53 and value m * 2^(-e).  Only       *)
(* values in [2^-10, 2^53) are represented (0 <= e <= 62).                 *)
(***************************************************************************)
Two52 == BigPow2(52)

Two53 == BigPow2(53)

IsMantissa(q) == BigCmp(q, Two52) >= 0 /\ BigCmp(q, Two53) < 0

\* round-half-even of a / k, k a small natural
DivRound(a, k) ==
  LET qr == BigDivSmall(a, k)
      up == 2 * qr[2] > k \/ (2 * qr[2] = k /\ BigOdd(qr[1]))
  IN  IF up THEN BigAdd(qr[1], <<1>>) ELSE qr[1]

\* the binary64 nearest to the decimal literal num / den (what the Python
\* parser makes of "1.005": num = 1005, den = 1000)
FloatOf(num, den) ==
  LET e == CHOOSE x \in 0..62 :
             IsMantissa(BigDivSmall(BigMul(BigOf(num), BigPow2(x)), den)[1])
      m == DivRound(BigMul(BigOf(num), BigPow2(e)), den)
  IN  IF BigCmp(m, Two53) = 0 THEN [m |-> Two52, e |-> e - 1]
      ELSE [m |-> m, e |-> e]

\* a shifted right by sh bits: <<quotient, 1 if a nonzero bit was dropped>>
RECURSIVE ShiftSticky(_, _, _)
ShiftSticky(a, s, sh) ==
  IF sh = 0 THEN <<a, s>>
  ELSE LET k  == IF sh < 13 THEN sh ELSE 13
           qr == BigDivSmall(a, 2 ^ k)
       IN  ShiftSticky(qr[1], IF s = 1 \/ qr[2] # 0 THEN 1 ELSE 0, sh - k)

\* a / 2^sh (sh >= 1), round-half-even: the last bit dropped is the guard
ShiftRound(a, sh) ==
  LET t  == ShiftSticky(a, 0, sh - 1)
      qr == BigDivSmall(t[1], 2)
      up == qr[2] = 1 /\ (t[2] = 1 \/ BigOdd(qr[1]))
  IN  IF up THEN BigAdd(qr[1], <<1>>) ELSE qr[1]

\* a * b, correctly rounded (the product of two 53-bit mantissas has 105 or
\* 106 bits)
FloatMul(a, b) ==
  LET p  == BigMul(a.m, b.m)
      sh == IF BigCmp(p, BigMul(Two53, Two52)) >= 0 THEN 53 ELSE 52
      m  == ShiftRound(p, sh)
      e  == a.e + b.e - sh
  IN  IF BigCmp(m, Two53) = 0 THEN [m |-> Two52, e |-> e - 1]
      ELSE [m |-> m, e |-> e]

\* sign of (num / den - f) for naturals num, den >= 1 and a float f
RatCmpFloat(num, den, f) ==
  BigCmp(BigMul(BigOf(num), BigPow2(f.e)), BigMulSmall(f.m, den))

(***************************************************************************)
(* Exact scores: [s, n, d] is s * sqrt(n / d), s in {-1, 0, 1}, n and d    *)
(* naturals, d >= 1, and n = 0 exactly when s = 0.                         *)
(***************************************************************************)
SurdZero == [s |-> 0, n |-> << >>, d |-> <<1>>]

SurdOfInt(k) == [s |-> Sgn(k), n |-> BigMul(BigOf(Abs(k)), BigOf(Abs(k))), d |-> <<1>>]

SurdNeg(a) == [a EXCEPT !.s = -a.s]

SurdMul(a, b) ==
  IF a.s * b.s = 0 THEN SurdZero
  ELSE [s |-> a.s * b.s, n |-> BigMul(a.n, b.n), d |-> BigMul(a.d, b.d)]

\* sign of |a| - |b|
SurdAbsCmp(a, b) == BigCmp(BigMul(a.n, b.d), BigMul(b.n, a.d))

\* a > b
SurdGt(a, b) ==
  IF a.s # b.s THEN a.s > b.s
  ELSE IF a.s = 1 THEN SurdAbsCmp(a, b) > 0
  ELSE IF a.s = -1 THEN SurdAbsCmp(a, b) < 0
  ELSE FALSE

SurdLt(a, b) == SurdGt(b, a)

(***************************************************************************)
(* Python lists and insertion-ordered dicts (a dict is a sequence of       *)
(* [key, value] records in insertion order).                               *)
(***************************************************************************)
\* Python's None, where a variable holds records otherwise
None == [none |-> TRUE]

Range(f) == {f[i] : i \in DOMAIN f}

Keys(d) == {d[i].key : i \in DOMAIN d}

Items(d) == {<<d[i].key, d[i].value>> : i \in DOMAIN d}

DictGet(d, k) == d[CHOOSE i \in DOMAIN d : d[i].key = k].value

\* d[k] = v: a new key goes last, an existing key keeps its place
DictSet(d, k, v) ==
  IF k \in Keys(d)
  THEN [i \in DOMAIN d |-> IF d[i].key = k THEN [key |-> k, value |-> v] ELSE d[i]]
  ELSE Append(d, [key |-> k, value |-> v])

Repeat(x, n) == [i \in 1..n |-> x]

(***************************************************************************)
(* momentum_burst_demo.py: signal quantification.                          *)
(*                                                                         *)
(* statistics.mean and statistics.stdev work in exact rational arithmetic  *)
(* and round once at the end; the model keeps the exact values.  With      *)
(* N = len(data), x' = x - data[0] (a shift changes neither last - mean    *)
(* nor the deviation), S = sum x', Q = sum x'^2:                           *)
(*     last - mean = (N * last' - S) / N                                   *)
(*     stdev^2     = (N * Q - S^2) / (N * (N - 1))                         *)
(*     z^2         = (N * last' - S)^2 * (N - 1) / (N * (N * Q - S^2))     *)
(***************************************************************************)
\* <<S, Q>> over f[lo..hi], lo <= hi, by halves (the recursion stays
\* shallow on 60 samples)
RECURSIVE Moments(_, _, _)
Moments(f, lo, hi) ==
  IF lo = hi THEN LET x == f[lo] - f[1] IN <<x, x * x>>
  ELSE LET mid == (lo + hi) \div 2
           a   == Moments(f, lo, mid)
           b   == Moments(f, mid + 1, hi)
       IN  <<a[1] + b[1], a[2] + b[2]>>

\* N * (data_list[-1] - mean_val), given S
LastMinusMean(data_list, S) ==
  Len(data_list) * (data_list[Len(data_list)] - data_list[1]) - S

\* N * (N - 1) * stdev_val^2, given S and Q
StdevSq(data_list, S, Q) == Len(data_list) * Q - S * S

Raise(exc) == [raised |-> TRUE, exc |-> exc]

Return(v) == [raised |-> FALSE, value |-> v]

compute_z_score(data_list) ==
  IF Len(data_list) < 2 THEN Raise("ValueError")
  ELSE LET N   == Len(data_list)
           SQ  == Moments(data_list, 1, N)
           var == StdevSq(data_list, SQ[1], SQ[2])
           num == LastMinusMean(data_list, SQ[1])
       IN  IF var = 0 THEN Raise("ValueError")
           ELSE Return([s |-> Sgn(num),
                        n |-> BigMulSmall(BigMul(BigOf(Abs(num)), BigOf(Abs(num))), N - 1),
                        d |-> IF num = 0 THEN <<1>> ELSE BigMulSmall(BigOf(var), N)])

\* compute_momentum_score without its except clause
ExceptNothing(exc) == Raise(exc)

\* lines 147-149: "except ValueError" prints the error and returns 0; any
\* other exception leaves the function
ExceptValueError(exc) ==
  IF exc = "ValueError"
  THEN [raised |-> FALSE, value |-> SurdZero, printed |-> TRUE]
  ELSE Raise(exc)

\* the score without the volume confirmation
PriceScoreOnly(prices, volumes) ==
  LET price_z == compute_z_score(prices)
  IN  IF price_z.raised THEN ExceptValueError(price_z.exc)
      ELSE LET volume_z == compute_z_score(volumes)
           IN  IF volume_z.raised THEN ExceptValueError(volume_z.exc)
               ELSE [raised |-> FALSE, printed |-> FALSE, value |-> price_z.value]

compute_momentum_score(prices, volumes) ==
  LET price_z == compute_z_score(prices)
  IN  IF price_z.raised THEN ExceptValueError(price_z.exc)
      ELSE LET volume_z == compute_z_score(volumes)
           IN  IF volume_z.raised THEN ExceptValueError(volume_z.exc)
               ELSE [raised |-> FALSE, printed |-> FALSE,
                     value |-> SurdMul(price_z.value, volume_z.value)]

Threshold == 5

\* the comparisons made inclusive
InclusiveOrder(momentum_score, threshold) ==
  IF ~SurdLt(momentum_score, threshold) THEN "BUY"
  ELSE IF ~SurdGt(momentum_score, SurdNeg(threshold)) THEN "SELL"
  ELSE "HOLD"

determine_order(momentum_score, threshold) ==
  IF SurdGt(momentum_score, threshold) THEN "BUY"
  ELSE IF SurdLt(momentum_score, SurdNeg(threshold)) THEN "SELL"
  ELSE "HOLD"

\* max(items, key=lambda x: abs(x[1])): the first item no later item beats
RECURSIVE MaxAbsFrom(_, _, _)
MaxAbsFrom(items, i, best) ==
  IF i > Len(items) THEN best
  ELSE MaxAbsFrom(items, i + 1,
                  IF SurdAbsCmp(items[i].value, items[best].value) > 0 THEN i ELSE best)

\* a maximum that keeps the last of the items that tie
RECURSIVE MaxAbsLastFrom(_, _, _)
MaxAbsLastFrom(items, i, best) ==
  IF i > Len(items) THEN best
  ELSE MaxAbsLastFrom(items, i + 1,
                      IF SurdAbsCmp(items[i].value, items[best].value) >= 0 THEN i ELSE best)

MaxAbsLast(items) == items[MaxAbsLastFrom(items, 2, 1)]

MaxAbs(items) == items[MaxAbsFrom(items, 2, 1)]

(***************************************************************************)
(* momentum_burst_demo.py: data simulation.                                *)
(*                                                                         *)
(* random.uniform is a nondeterministic choice.  A price fluctuation is    *)
(* counted in half percents (uniform(-0.005, 0.005) is -1..1, the burst's  *)
(* uniform(0.01, 0.02) is 2..4), a volume factor in tenths (uniform(0.8,   *)
(* 1.2) is 8..12, the burst's uniform(2.0, 3.0) is 20..30).  The samples   *)
(* before the last one are drawn as a level of spread: j samples at the    *)
(* low end, j at the high end, the others at the base value.  Nothing the  *)
(* program computes depends on the order of the samples before the last.   *)
(***************************************************************************)
NumPoints == 60

BasePrice == 15000

BaseVolume == 1000

MaxSpread == 1

MaxPoints == 2

PriceFluct == {-1, 0, 1}

VolumeFactor == {8, 12}

BurstFluct == {2, 3}

BurstFactor == {25}

\* round(base_price * (1 + fluctuation), 2), in cents
PriceAt(base_price, f) == base_price + (base_price * f) \div 200

\* int(base_volume * factor)
VolumeAt(base_volume, u) == (base_volume * u) \div 10

\* str.upper on the identifiers of the model
Upper(exchange) == IF exchange = "nasdaq" THEN "NASDAQ" ELSE exchange

IsBurst(exchange) == Upper(exchange) = "NASDAQ"

\* the samples the loop appended before the last one, at spread level k
Before(n, k, lo, mid, hi) ==
  LET j == k * (((n - 1) \div 2) \div MaxSpread)
  IN  Repeat(lo, j) \o Repeat(hi, j) \o Repeat(mid, n - 1 - 2 * j)

\* A list of equal samples followed by one different sample has the z-score
\* (n - 1) / sqrt(n) whatever the two values, so two such sources tie exactly
\* where binary64 rounds their scores apart; two sources with the very same
\* data tie in binary64 too.  The burst source, whose last sample no other
\* source can share, is drawn with some spread (k >= 1), so that every tie of
\* the model is between sources the program also ties.
\* the lists the loop of lines 61-68 can leave (num_points >= 1)
LoopResults(exchange, num_points, base_price, base_volume) ==
  { [prices  |-> Append(Before(num_points, k, PriceAt(base_price, -1),
                               PriceAt(base_price, 0), PriceAt(base_price, 1)),
                        PriceAt(base_price, f)),
     volumes |-> Append(Before(num_points, k, VolumeAt(base_volume, 8),
                               VolumeAt(base_volume, 10), VolumeAt(base_volume, 12)),
                        VolumeAt(base_volume, u))] :
      k \in (IF IsBurst(exchange) THEN 1 ELSE 0)..MaxSpread,
      f \in PriceFluct, u \in VolumeFactor }

\* prices[-1] = ..., volumes[-1] = ...: an IndexError on an empty list
BurstResults(data, base_price, base_volume) ==
  IF Len(data.prices) = 0 THEN {Raise("IndexError")}
  ELSE { Return([prices  |-> [data.prices EXCEPT ![Len(data.prices)] =
                                 PriceAt(base_price, f)],
                 volumes |-> [data.volumes EXCEPT ![Len(data.volumes)] =
                                 VolumeAt(base_volume, u)]]) :
           f \in BurstFluct, u \in BurstFactor }

\* every outcome of simulate_exchange_data: a returned dict or a raise
simulate_exchange_data(exchange, num_points, base_price, base_volume) ==
  LET looped == IF num_points = 0 THEN {[prices |-> << >>, volumes |-> << >>]}
                ELSE LoopResults(exchange, num_points, base_price, base_volume)
  IN  IF IsBurst(exchange)
      THEN UNION {BurstResults(d, base_price, base_volume) : d \in looped}
      ELSE {Return(d) : d \in looped}

(***************************************************************************)
(* momentum_burst_demo.py: main and fetch_all_exchanges as a state         *)
(* machine.  The worker threads run the tasks in any order; as_completed   *)
(* hands main every finished future once, in any order.                    *)
(***************************************************************************)
VARIABLES
  pc,                 \* main's position
  future,             \* future_to_exchange / future_to_segment: the tasks' states
  yielded,            \* the futures as_completed has handed over
  decision,           \* the label printed, or "none"
  stdout,             \* what was printed: errors and the decision
  unhandled,          \* the exception that ended main, or "none"
  exchanges,          \* momentum_burst_demo: main's list of source identifiers
  num_points,         \* momentum_burst_demo: samples per source
  exchange_data,      \* momentum_burst_demo: the dict fetch_all_exchanges returns
  momentum_results,   \* momentum_burst_demo: main's dict of scores
  extreme,            \* momentum_burst_demo: the item max() picked, or None
  total_points,       \* brand_demo: main's total_points
  stock_data,         \* brand_demo: the list fetch_stock_data fills and returns
  signal,             \* brand_demo: the moving average, or None
  call,               \* a single call of a pure function: its name and arguments
  ret                 \* that call's result, or None

run   == <<pc, future, yielded, decision, stdout, unhandled>>

mvars == <<exchanges, num_points, exchange_data, momentum_results, extreme>>

bvars == <<total_points, stock_data, signal>>

cvars == <<call, ret>>

vars  == <<run, mvars, bvars, cvars>>

MainExchanges == <<"NYSE", "NASDAQ", "BATS">>

\* lists of unique identifiers: main's list, with any of its entries left
\* out and the burst identifier in either case
SourceLists ==
  { SelectSeq(<<"NYSE", q, "BATS">>, LAMBDA x : x \in keep) :
      q \in {"NASDAQ", "nasdaq"}, keep \in SUBSET {"NYSE", "NASDAQ", "nasdaq", "BATS"} }

MInitWith(exs, n) ==
  /\ exchanges = exs
  /\ num_points = n
  /\ pc = "start"
  /\ future = [ex \in Range(exs) |-> [state |-> "none"]]
  /\ yielded = {}
  /\ exchange_data = << >>
  /\ momentum_results = << >>
  /\ extreme = None
  /\ decision = "none"
  /\ stdout = << >>
  /\ unhandled = "none"
  /\ total_points = 0
  /\ stock_data = << >>
  /\ signal = None
  /\ call = None
  /\ ret = None

Crash(exc) ==
  /\ pc' = "crashed"
  /\ unhandled' = exc

\* lines 92-97: the pool is created and every task submitted; a pool of
\* zero workers is refused with a ValueError
Submit ==
  /\ pc = "start"
  /\ IF Len(exchanges) = 0
     THEN /\ Crash("ValueError")
          /\ UNCHANGED future
     ELSE /\ pc' = "fetch"
          /\ future' = [ex \in Range(exchanges) |-> [state |-> "pending"]]
          /\ UNCHANGED unhandled
  /\ UNCHANGED <<yielded, decision, stdout, mvars, bvars, cvars>>

\* a worker thread runs simulate_exchange_data(ex, ...) to its end
RunTask(ex) ==
  /\ pc = "fetch"
  /\ future[ex].state = "pending"
  /\ \E out \in simulate_exchange_data(ex, num_points, BasePrice, BaseVolume) :
       future' = [future EXCEPT ![ex] = [state |-> "finished", outcome |-> out]]
  /\ UNCHANGED <<pc, yielded, decision, stdout, unhandled, mvars, bvars, cvars>>

\* lines 98-103: one turn of the as_completed loop
Collect(ex) ==
  /\ pc = "fetch"
  /\ future[ex].state = "finished"
  /\ ex \notin yielded
  /\ yielded' = yielded \cup {ex}
  /\ IF future[ex].outcome.raised
     THEN /\ stdout' = Append(stdout, [kind |-> "fetch_error", exchange |-> ex,
                                       exc |-> future[ex].outcome.exc])
          /\ UNCHANGED exchange_data
     ELSE /\ exchange_data' = DictSet(exchange_data, ex, future[ex].outcome.value)
          /\ UNCHANGED stdout
  /\ UNCHANGED <<pc, future, decision, unhandled, exchanges, num_points,
                 momentum_results, extreme, bvars, cvars>>

\* a return after the first completed future
FetchReturnEarly ==
  /\ pc = "fetch"
  /\ yielded # {}
  /\ pc' = "score"
  /\ UNCHANGED <<future, yielded, decision, stdout, unhandled, mvars, bvars, cvars>>

\* as_completed is exhausted, the pool shuts down, line 104 returns
FetchReturn ==
  /\ pc = "fetch"
  /\ yielded = Range(exchanges)
  /\ pc' = "score"
  /\ UNCHANGED <<future, yielded, decision, stdout, unhandled, mvars, bvars, cvars>>

\* lines 187-202: one turn of the loop over data_by_exchange.items(); the
\* report reads prices[-1], an IndexError on an empty list
ScoreNext ==
  /\ pc = "score"
  /\ Len(momentum_results) < Len(exchange_data)
  /\ LET item     == exchange_data[Len(momentum_results) + 1]
         momentum == compute_momentum_score(item.value.prices, item.value.volumes)
     IN  IF momentum.raised
         THEN /\ Crash(momentum.exc)
              /\ UNCHANGED <<momentum_results, stdout>>
         ELSE /\ momentum_results' = DictSet(momentum_results, item.key, momentum.value)
              /\ stdout' = IF momentum.printed
                           THEN Append(stdout, [kind |-> "score_error",
                                                exchange |-> item.key])
                           ELSE stdout
              /\ IF Len(item.value.prices) = 0
                 THEN Crash("IndexError")
                 ELSE UNCHANGED <<pc, unhandled>>
  /\ UNCHANGED <<future, yielded, decision, exchanges, num_points, exchange_data,
                 extreme, bvars, cvars>>

\* lines 204-212: max() of an empty dict is a ValueError
Decide ==
  /\ pc = "score"
  /\ Len(momentum_results) = Len(exchange_data)
  /\ IF Len(momentum_results) = 0
     THEN /\ Crash("ValueError")
          /\ UNCHANGED <<extreme, decision, stdout>>
     ELSE LET best == MaxAbs(momentum_results)
              d    == determine_order(best.value, SurdOfInt(Threshold))
          IN  /\ extreme' = best
              /\ decision' = d
              /\ stdout' = Append(stdout, [kind |-> "decision", exchange |-> best.key,
                                           decision |-> d])
              /\ pc' = "done"
              /\ UNCHANGED unhandled
  /\ UNCHANGED <<future, yielded, exchanges, num_points, exchange_data,
                 momentum_results, bvars, cvars>>

MNext ==
  \/ Submit
  \/ \E ex \in Range(exchanges) : RunTask(ex)
  \/ \E ex \in Range(exchanges) : Collect(ex)
  \/ FetchReturn
  \/ ScoreNext
  \/ Decide

\* momentum_burst_demo.py as written: main's own list, 60 samples per source
Init == MInitWith(MainExchanges, NumPoints)

Next == MNext

Spec == Init /\ [][Next]_vars

\* main and fetch_all_exchanges on any list of sources and any short length
InitAny == \E exs \in SourceLists, n \in 0..MaxPoints : MInitWith(exs, n)

SpecAny == InitAny /\ [][Next]_vars

(***************************************************************************)
(* brand_demo.py.                                                          *)
(*                                                                         *)
(* A segment's prices are drawn as one value for all samples but the last  *)
(* and one for the last.  sum(window) / window_size is kept as the exact   *)
(* ratio of the prices in cents: the binary64 result differs from it by    *)
(* less than 2^-35, and it is compared with thresholds that are either     *)
(* more than 0.0009 away (the exact mean is a multiple of 0.001) or met    *)
(* by a window of ten equal prices 149.25 or 150.75, whose sum and mean    *)
(* binary64 computes exactly.                                              *)
(***************************************************************************)
TotalPoints == 100

Segments == 4

WindowSize == 10

StockFluct == {-1, 1}

TotalChoices == {0, 8, 20, TotalPoints}

simulate_stock_fetch(segment_index, n, base_price) ==
  IF n = 0 THEN {<< >>}
  ELSE { Append(Repeat(PriceAt(base_price, a), n - 1), PriceAt(base_price, b)) :
           a \in StockFluct, b \in StockFluct }

Min(a, b) == IF a < b THEN a ELSE b

Max(a, b) == IF a > b THEN a ELSE b

\* list[start:]
SliceFrom(list, start) ==
  LET from == IF start < 0 THEN Max(Len(list) + start, 0) ELSE Min(start, Len(list))
  IN  SubSeq(list, from + 1, Len(list))

RECURSIVE SumFrom(_, _, _)
SumFrom(list, i, acc) ==
  IF i > Len(list) THEN acc ELSE SumFrom(list, i + 1, acc + list[i])

\* the window taken at the head of the list, data[:window_size]
HeadSignal(data, window_size) ==
  IF Len(data) < window_size THEN Raise("ValueError")
  ELSE LET window == SubSeq(data, 1, window_size)
       IN  IF window_size = 0 THEN Raise("ZeroDivisionError")
           ELSE Return([num |-> SumFrom(window, 1, 0), den |-> window_size])

\* the moving average as the ratio num / den, or the exception raised
compute_signal(data, window_size) ==
  IF Len(data) < window_size THEN Raise("ValueError")
  ELSE LET window == SliceFrom(data, -window_size)
       IN  IF window_size = 0 THEN Raise("ZeroDivisionError")
           ELSE Return([num |-> SumFrom(window, 1, 0), den |-> window_size])

\* the binary64 thresholds of lines 117-118
UpperThreshold == FloatMul(FloatOf(BasePrice, 100), FloatOf(1005, 1000))

LowerThreshold == FloatMul(FloatOf(BasePrice, 100), FloatOf(995, 1000))

\* sig is the signal in cents, as a ratio with a positive denominator
determine_investment_decision(sig, upper_threshold, lower_threshold) ==
  IF RatCmpFloat(sig.num, 100 * sig.den, upper_threshold) > 0 THEN "Buy"
  ELSE IF RatCmpFloat(sig.num, 100 * sig.den, lower_threshold) < 0 THEN "Sell"
  ELSE "Hold"

SegmentIds == 0..(Segments - 1)

BInit ==
  /\ total_points \in TotalChoices
  /\ pc = "start"
  /\ future = [i \in SegmentIds |-> [state |-> "none"]]
  /\ yielded = {}
  /\ stock_data = << >>
  /\ signal = None
  /\ decision = "none"
  /\ stdout = << >>
  /\ unhandled = "none"
  /\ exchanges = << >>
  /\ num_points = 0
  /\ exchange_data = << >>
  /\ momentum_results = << >>
  /\ extreme = None
  /\ call = None
  /\ ret = None

\* lines 63-71
BSubmit ==
  /\ pc = "start"
  /\ pc' = "fetch"
  /\ future' = [i \in SegmentIds |-> [state |-> "pending"]]
  /\ UNCHANGED <<yielded, decision, stdout, unhandled, mvars, bvars, cvars>>

\* a worker thread runs simulate_stock_fetch(i, points_per_segment, base_price)
BRunTask(i) ==
  /\ pc = "fetch"
  /\ future[i].state = "pending"
  /\ \E out \in simulate_stock_fetch(i, total_points \div Segments, BasePrice) :
       future' = [future EXCEPT ![i] = [state |-> "finished", outcome |-> Return(out)]]
  /\ UNCHANGED <<pc, yielded, decision, stdout, unhandled, mvars, bvars, cvars>>

\* lines 72-78: one turn of the as_completed loop
BCollect(i) ==
  /\ pc = "fetch"
  /\ future[i].state = "finished"
  /\ i \notin yielded
  /\ yielded' = yielded \cup {i}
  /\ IF future[i].outcome.raised
     THEN /\ stdout' = Append(stdout, [kind |-> "fetch_error", segment |-> i])
          /\ UNCHANGED stock_data
     ELSE /\ stock_data' = stock_data \o future[i].outcome.value
          /\ UNCHANGED stdout
  /\ UNCHANGED <<pc, future, decision, unhandled, total_points, signal, mvars, cvars>>

\* line 79
BFetchReturn ==
  /\ pc = "fetch"
  /\ yielded = SegmentIds
  /\ pc' = "signal"
  /\ UNCHANGED <<future, yielded, decision, stdout, unhandled, mvars, bvars, cvars>>

\* lines 140-148
BFinish ==
  /\ pc = "signal"
  /\ LET r == compute_signal(stock_data, WindowSize)
     IN  IF r.raised /\ r.exc = "ValueError"
         THEN /\ stdout' = Append(stdout, [kind |-> "signal_error"])
              /\ pc' = "done"
              /\ UNCHANGED <<signal, decision, unhandled>>
         ELSE IF r.raised
         THEN /\ Crash(r.exc)
              /\ UNCHANGED <<signal, decision, stdout>>
         ELSE LET d == determine_investment_decision(r.value, UpperThreshold,
                                                     LowerThreshold)
              IN  /\ signal' = r.value
                  /\ decision' = d
                  /\ stdout' = Append(stdout, [kind |-> "decision", decision |-> d])
                  /\ pc' = "done"
                  /\ UNCHANGED unhandled
  /\ UNCHANGED <<future, yielded, total_points, stock_data, mvars, cvars>>

BNext ==
  \/ BSubmit
  \/ \E i \in SegmentIds : BRunTask(i)
  \/ \E i \in SegmentIds : BCollect(i)
  \/ BFetchReturn
  \/ BFinish

SpecBrand == BInit /\ [][BNext]_vars

(***************************************************************************)
(* Single calls of the pure functions, on small arguments.                 *)
(***************************************************************************)
MaxLen == 3

MaxScore == 7

SampleValues == {0, 1, 3}

RECURSIVE SeqsUpTo(_, _)
SeqsUpTo(S, n) ==
  IF n = 0 THEN {<< >>}
  ELSE LET shorter == SeqsUpTo(S, n - 1)
       IN  shorter \cup {Append(q, x) : q \in {t \in shorter : Len(t) = n - 1}, x \in S}

Lists == SeqsUpTo(SampleValues, MaxLen)

Calls ==
  {[fn |-> "determine_order", momentum_score |-> x, threshold |-> t] :
     x \in -MaxScore..MaxScore, t \in -MaxScore..MaxScore}
  \cup {[fn |-> "compute_signal", stock_data |-> d, window_size |-> w] :
          d \in Lists, w \in -1..(MaxLen + 1)}
  \cup {[fn |-> "compute_momentum_score", prices |-> p, volumes |-> v] :
          p \in Lists, v \in Lists}

CInit ==
  /\ call \in Calls
  /\ ret = None
  /\ pc = "idle"
  /\ future = << >>
  /\ yielded = {}
  /\ decision = "none"
  /\ stdout = << >>
  /\ unhandled = "none"
  /\ exchanges = << >>
  /\ num_points = 0
  /\ exchange_data = << >>
  /\ momentum_results = << >>
  /\ extreme = None
  /\ total_points = 0
  /\ stock_data = << >>
  /\ signal = None

CallDetermineOrder ==
  /\ ret = None
  /\ call.fn = "determine_order"
  /\ ret' = Return(determine_order(SurdOfInt(call.momentum_score),
                                   SurdOfInt(call.threshold)))
  /\ UNCHANGED <<call, run, mvars, bvars>>

CallComputeSignal ==
  /\ ret = None
  /\ call.fn = "compute_signal"
  /\ ret' = compute_signal(call.stock_data, call.window_size)
  /\ UNCHANGED <<call, run, mvars, bvars>>

CallComputeMomentumScore ==
  /\ ret = None
  /\ call.fn = "compute_momentum_score"
  /\ ret' = compute_momentum_score(call.prices, call.volumes)
  /\ UNCHANGED <<call, run, mvars, bvars>>

CNext ==
  \/ CallDetermineOrder
  \/ CallComputeSignal
  \/ CallComputeMomentumScore

SpecPure == CInit /\ [][CNext]_vars

(***************************************************************************)
(* The claims.                                                             *)
(***************************************************************************)
Finished(ex) == future[ex].state = "finished"

Raised(ex) == Finished(ex) /\ future[ex].outcome.raised

\* fetch_all_exchanges has returned to main (a run that ends in Submit never
\* entered the pool)
FetchReturned ==
  pc \in {"score", "done"} \/ (pc = "crashed" /\ exchanges # << >>)

\* C1: once fetch_all_exchanges has returned, every dispatched task has
\* finished or raised; the mapping holds exactly one entry per source whose
\* task did not raise, with that task's own result; a source whose task raised
\* is logged and absent.  The entries are a function of the tasks' outcomes
\* alone, so they are the same for every completion order.
C1_FetchCollectsEveryResult ==
  FetchReturned =>
    /\ \A ex \in Range(exchanges) : Finished(ex)
    /\ Len(exchange_data) = Cardinality(Keys(exchange_data))
    /\ Items(exchange_data) =
         {<<ex, future[ex].outcome.value>> :
            ex \in {e \in Range(exchanges) : ~future[e].outcome.raised}}
    /\ \A ex \in Range(exchanges) :
         future[ex].outcome.raised =>
           /\ ex \notin Keys(exchange_data)
           /\ \E i \in DOMAIN stdout :
                stdout[i].kind = "fetch_error" /\ stdout[i].exchange = ex

\* three sources, one of which raised: the other two are in the mapping
C1_Witness ==
  /\ pc = "score"
  /\ Len(exchanges) = 3
  /\ \E ex \in Range(exchanges) : Raised(ex)
  /\ Len(exchange_data) = 2

\* C2: a run ends with a decision or a diagnostic, never with an unhandled
\* error, whatever tasks fail and whatever the lengths.
C2_NoUnhandledError ==
  /\ pc # "crashed"
  /\ pc = "done" => \E i \in DOMAIN stdout : stdout[i].kind \in {"decision", "signal_error"}

\* C7: simulate_exchange_data never raises and returns num_points prices and
\* num_points volumes, for every identifier and every count >= 0.
C7_GeneratorNeverRaises ==
  \A ex \in DOMAIN future :
    Finished(ex) =>
      /\ ~future[ex].outcome.raised
      /\ Len(future[ex].outcome.value.prices) = num_points
      /\ Len(future[ex].outcome.value.volumes) = num_points

\* |a| <= |b|
AbsLeq(a, b) == SurdAbsCmp(a, b) <= 0

IndexOf(d, k) == CHOOSE i \in DOMAIN d : d[i].key = k

Five == SurdOfInt(Threshold)

\* C3: at the end of a multi-exchange run there is one score per fetched
\* source; no score is larger in magnitude than the selected one; every item
\* before the selected one in the mapping is strictly smaller in magnitude;
\* and the label printed classifies the selected score.
C3_MostExtremeIsClassified ==
  pc = "done" =>
    /\ Keys(momentum_results) = Keys(exchange_data)
    /\ extreme \in Range(momentum_results)
    /\ \A i \in DOMAIN momentum_results :
         /\ AbsLeq(momentum_results[i].value, extreme.value)
         /\ i < IndexOf(momentum_results, extreme.key) =>
              ~AbsLeq(extreme.value, momentum_results[i].value)
    /\ decision \in {"BUY", "SELL", "HOLD"}
    /\ decision = "BUY" <=> SurdGt(extreme.value, Five)
    /\ decision = "SELL" <=> SurdLt(extreme.value, SurdNeg(Five))
    /\ stdout[Len(stdout)] =
         [kind |-> "decision", exchange |-> extreme.key, decision |-> decision]

\* two sources tie on magnitude, the earlier one is selected, and its score
\* is below -5
C3_Witness ==
  /\ pc = "done"
  /\ decision = "SELL"
  /\ \E i \in DOMAIN momentum_results :
       /\ i > IndexOf(momentum_results, extreme.key)
       /\ AbsLeq(extreme.value, momentum_results[i].value)

\* the scenario of C8: three sources of 60 samples, the burst source's last
\* sample at +1.5% and 2.5x (every earlier sample is inside the normal ranges)
BurstSource == "NASDAQ"

BurstScenario ==
  /\ pc = "done"
  /\ Len(exchanges) = 3 /\ num_points = NumPoints
  /\ LET data == DictGet(exchange_data, BurstSource)
     IN  /\ data.prices[NumPoints] = PriceAt(BasePrice, 3)
         /\ data.volumes[NumPoints] = VolumeAt(BaseVolume, 25)

BurstScore == DictGet(momentum_results, BurstSource)

\* C8 as stated: in the scenario the burst source's score exceeds 5.0 in
\* magnitude, the burst source is the one selected, and the decision is BUY.
C8_BurstSelectedAndBuy ==
  BurstScenario =>
    /\ ~AbsLeq(BurstScore, Five)
    /\ extreme.key = BurstSource
    /\ decision = "BUY"

\* C8 as amended: in the scenario the burst source's score exceeds +5.0; the
\* selected score is at least as large in magnitude, so the decision is BUY
\* or SELL; and when both other scores are smaller in magnitude than the burst
\* source's, the burst source is selected and the decision is BUY.
C8_BurstScoreAboveThreshold ==
  BurstScenario =>
    /\ SurdGt(BurstScore, Five)
    /\ AbsLeq(BurstScore, extreme.value)
    /\ decision \in {"BUY", "SELL"}
    /\ (\A i \in DOMAIN momentum_results :
          momentum_results[i].key # BurstSource =>
            ~AbsLeq(BurstScore, momentum_results[i].value))
       => (extreme.key = BurstSource /\ decision = "BUY")

\* the scenario, with the burst source selected
C8_Witness ==
  /\ BurstScenario
  /\ extreme.key = BurstSource
  /\ decision = "BUY"

\* the scores of this run, in the order the sources were dispatched: the
\* mapping of the run in which the tasks complete in that order
InDispatchOrder ==
  LET fetched == SelectSeq(exchanges, LAMBDA ex : ex \in Keys(momentum_results))
  IN  [i \in DOMAIN fetched |->
         [key |-> fetched[i], value |-> DictGet(momentum_results, fetched[i])]]

\* C9: for fixed data per source, the selected source and the decision are
\* those of the run that completes in dispatch order, whatever the order in
\* which the tasks of this run completed.
C9_SelectionIgnoresCompletionOrder ==
  pc = "done" =>
    /\ extreme.key = MaxAbs(InDispatchOrder).key
    /\ decision = determine_order(MaxAbs(InDispatchOrder).value, Five)

Returned(fn) == ret # None /\ call.fn = fn

\* C4 as stated: for every score and every threshold determine_order returns
\* BUY iff score > +threshold, SELL iff score < -threshold, HOLD otherwise, and
\* HOLD for a score equal to +threshold or -threshold.
C4_ThreeBandsAnyThreshold ==
  Returned("determine_order") =>
    LET x == call.momentum_score
        t == call.threshold
    IN  /\ ~ret.raised
        /\ ret.value = "BUY" <=> x > t
        /\ ret.value = "SELL" <=> x < -t
        /\ ret.value = "HOLD" <=> ~(x > t) /\ ~(x < -t)
        /\ (x = t \/ x = -t) => ret.value = "HOLD"

\* C4 as amended: determine_order never raises, and for every score and every
\* threshold >= 0 it returns BUY iff score > +threshold, SELL iff
\* score < -threshold, HOLD otherwise, and HOLD for a score equal to +threshold
\* or -threshold.
C4_ThreeBandsNonNegativeThreshold ==
  Returned("determine_order") =>
    LET x == call.momentum_score
        t == call.threshold
    IN  /\ ~ret.raised
        /\ ret.value \in {"BUY", "SELL", "HOLD"}
        /\ t >= 0 =>
             /\ ret.value = "BUY" <=> x > t
             /\ ret.value = "SELL" <=> x < -t
             /\ ret.value = "HOLD" <=> ~(x > t) /\ ~(x < -t)
             /\ (x = t \/ x = -t) => ret.value = "HOLD"

\* a score on the boundary of the default threshold
C4_Witness ==
  /\ Returned("determine_order")
  /\ call.threshold = Threshold
  /\ call.momentum_score = -Threshold
  /\ ret.value = "HOLD"

\* the sum of the last w elements of d (none for w <= 0)
TailSum(d, w) ==
  LET idx == {i \in DOMAIN d : i > Len(d) - w}
      f[S \in SUBSET idx] ==
        IF S = {} THEN 0 ELSE LET i == CHOOSE j \in S : TRUE IN d[i] + f[S \ {i}]
  IN  f[idx]

SameTail(d, e, w) ==
  /\ Len(e) >= w
  /\ \A k \in 0..(w - 1) : e[Len(e) - k] = d[Len(d) - k]

\* C5 as stated: for every sequence and every window size w compute_signal
\* fails with the insufficient-data error when len(sequence) < w and otherwise
\* returns the mean of exactly the last w elements, whatever precedes them.
C5_MeanOfLastAnyWindow ==
  Returned("compute_signal") =>
    IF Len(call.stock_data) < call.window_size THEN ret = Raise("ValueError")
    ELSE /\ ~ret.raised
         /\ ret.value.num * call.window_size =
              ret.value.den * TailSum(call.stock_data, call.window_size)
         /\ \A e \in Lists :
              SameTail(call.stock_data, e, call.window_size) =>
                compute_signal(e, call.window_size) = ret

\* C5 as amended: the same, for every window size w >= 1.
C5_MeanOfLastPositiveWindow ==
  (Returned("compute_signal") /\ call.window_size >= 1) =>
    IF Len(call.stock_data) < call.window_size THEN ret = Raise("ValueError")
    ELSE /\ ~ret.raised
         /\ ret.value.num * call.window_size =
              ret.value.den * TailSum(call.stock_data, call.window_size)
         /\ \A e \in Lists :
              SameTail(call.stock_data, e, call.window_size) =>
                compute_signal(e, call.window_size) = ret

\* a mean over a proper tail of a sequence whose first element is not in it
\* and would change the mean
C5_Witness ==
  /\ Returned("compute_signal")
  /\ call.window_size = 2
  /\ call.stock_data = <<3, 0, 1>>
  /\ ret = Return([num |-> 1, den |-> 2])

IsConstant(d) == \A i \in DOMAIN d : d[i] = d[1]

\* N * (last - mean) and N^2 * (N - 1) * stdev^2, from the definitions
DevOfLast(d) == Len(d) * d[Len(d)] - TailSum(d, Len(d))

SumSqDev(d) ==
  TailSum([i \in DOMAIN d |-> (Len(d) * d[i] - TailSum(d, Len(d))) ^ 2], Len(d))

\* C6: compute_momentum_score never raises; it returns 0, which
\* determine_order maps to HOLD, when either sequence has fewer than 2
\* elements or is constant; otherwise it returns price_z * volume_z with
\* z = (last - mean) / sample stdev: the sign is that of the two deviations'
\* product and the square is the product of the squared z-scores.
C6_FailSoftMomentumScore ==
  Returned("compute_momentum_score") =>
    LET p == call.prices
        v == call.volumes
    IN  /\ ~ret.raised
        /\ IF Len(p) < 2 \/ Len(v) < 2 \/ IsConstant(p) \/ IsConstant(v)
           THEN /\ ret.value = SurdZero
                /\ determine_order(ret.value, Five) = "HOLD"
           ELSE /\ ret.value.s = Sgn(DevOfLast(p)) * Sgn(DevOfLast(v))
                /\ BigCmp(BigMul(ret.value.n, BigOf(SumSqDev(p) * SumSqDev(v))),
                          BigMul(ret.value.d,
                                 BigOf(DevOfLast(p) ^ 2 * (Len(p) - 1)
                                         * DevOfLast(v) ^ 2 * (Len(v) - 1)))) = 0

\* one call that fails soft on a constant sequence and one with a negative
\* product of z-scores are both reached; this is the second
C6_Witness ==
  /\ Returned("compute_momentum_score")
  /\ call.prices = <<0, 1, 3>>
  /\ call.volumes = <<3, 1, 0>>
  /\ ret.value.s = -1

\* C10: with the default configuration every run of brand_demo.py that
\* reaches the classifier prints "Hold".
C10_DefaultRunAlwaysHolds ==
  (pc = "done" /\ total_points = TotalPoints /\ decision # "none") =>
    decision = "Hold"

=============================================================================
